---- MODULE Spec2Model ----
(***************************************************************************)
(* Commit-graph layout and flow-grouping engine of gitlite                 *)
(* (ui/src/lib/components/commits/graphEngine.ts).                         *)
(*                                                                         *)
(* Arrays indexed by row (items, laneByRow) are functions over 0..n-1 so   *)
(* that row numbers read as in the source; every other array (parents,     *)
(* edges, groups, group.commits, relations, branchItems) is a sequence.    *)
(* A Map<string, X> is a function whose DOMAIN is the set of keys.         *)
(***************************************************************************)
EXTENDS Integers, Sequences, FiniteSets, TLC

VARIABLES
    pc,           \* "input": arguments chosen, "done": function returned, "scan": grouping loop, "walk": walk loop
    items,        \* CommitSummary[] handed to the engine (row 0 = newest)
    branchItems,  \* BranchInfo[] handed to buildFlowBranchLabelMap
    layout,       \* GraphLayout returned by buildGraph
    labelMap,     \* Map<hash, label>: result of buildFlowBranchLabelMap / table behind resolveBranchLabel
    laneByHash,   \* Map<hash, lane> handed to buildFlowGroups
    groups,       \* FlowGroup[] of buildFlowGroups
    walk          \* locals of an ancestry walk in progress (mainline or branch walk)

vars == <<pc, items, branchItems, layout, labelMap, laneByHash, groups, walk>>

----------------------------------------------------------------------------
(* Program constants *)

ROW_HEIGHT == 46
LANE_WIDTH == 14
LANE_PADDING == 8
MAX_GRAPH_WIDTH == 196
FLOW_WINDOW_MS == 1000 * 60 * 60 * 6
FLOW_MAX_GROUP_SIZE == 8

----------------------------------------------------------------------------
(* Bounds of the explored inputs *)

MaxCommits == 4        \* rows of a history given to buildGraph
MaxParents == 2        \* parent hashes of one commit
MaxParentRefs == 3     \* parent hashes of a whole history
MaxLabelCommits == 3   \* rows of a history given to buildFlowBranchLabelMap
MaxLabelParentRefs == 2 \* parent hashes of such a history
MaxBranches == 2       \* branches given to buildFlowBranchLabelMap
MaxFlowCommits == 9    \* commits consumed by the grouping loop
MaxFreeCommits == 3    \* leading commits of a grouping input chosen without restriction
MaxRuns == 1           \* runs of equal message, date and label in a longer grouping input
MaxWideCommits == 23   \* rows of a history with many side lanes
MaxNextRowParents == 1 \* commits of such a history that have the next row as parent
MaxPieces == 4         \* pieces of text a classified commit message is made of

----------------------------------------------------------------------------
(* Generic helpers *)

Max(a, b) == IF a >= b THEN a ELSE b
Min(a, b) == IF a <= b THEN a ELSE b
Abs(x) == IF x < 0 THEN -x ELSE x
Range(s) == {s[i] : i \in DOMAIN s}
SetMax(S) == CHOOSE x \in S : \A y \in S : y <= x
Rows(its) == DOMAIN its
Length(its) == Cardinality(DOMAIN its)
Push(arr, x) == [i \in 0..Length(arr) |-> IF i < Length(arr) THEN arr[i] ELSE x]
ToSeq(arr) == [i \in 1..Length(arr) |-> arr[i - 1]]
Put(map, k, v) == [x \in DOMAIN map \cup {k} |-> IF x = k THEN v ELSE map[x]]
EmptyMap == [x \in {} |-> 0]
SetMin(S) == CHOOSE x \in S : \A y \in S : x <= y
\* the undefined of a failed find or Map.get
Undefined == "undefined"
\* Array.prototype.find: the element at the first of the indices that pass
\* the test, or Undefined when none does
FindFirst(s, passing) == IF passing = {} THEN Undefined ELSE s[SetMin(passing)]

----------------------------------------------------------------------------
(* Data model *)

HashNames == <<"C0", "C1", "C2", "C3", "C4", "C5", "C6", "C7", "C8", "C9", "C10", "C11",
               "C12", "C13", "C14", "C15", "C16", "C17", "C18", "C19", "C20", "C21",
               "C22", "C23", "C24", "C25">>
HashOfRow(r) == HashNames[r + 1]
External == "X"          \* a parent hash outside the visible set
NoMessage == <<>>

CommitSummary(h, msg, d, ps) ==
    [hash |-> h, author |-> "dev", message |-> msg, date |-> d, parents |-> ps]

----------------------------------------------------------------------------
(* buildGraph *)

\* hashToRow: items.forEach((commit, index) => hashToRow.set(commit.hash, index))
hashToRow(its) ==
    [h \in {its[r].hash : r \in Rows(its)} |->
        SetMax({r \in Rows(its) : its[r].hash = h})]

\* commitByHash: items.forEach((commit) => commitByHash.set(commit.hash, commit))
commitByHash(its) ==
    [h \in {its[r].hash : r \in Rows(its)} |->
        its[SetMax({r \in Rows(its) : its[r].hash = h})]]

Visible(its, h) == h \in DOMAIN hashToRow(its)

\* commit.parents.find((parent) => hashToRow.has(parent))
FirstVisibleParent(its, commit) ==
    FindFirst(commit.parents, {i \in 1..Len(commit.parents) : Visible(its, commit.parents[i])})

\* children.sort((a, b) => hashToRow.get(a) - hashToRow.get(b)), a stable sort
RECURSIVE InsertByRow(_, _, _)
InsertByRow(sorted, h, rowOf) ==
    IF sorted = <<>> THEN <<h>>
    ELSE LET last == sorted[Len(sorted)] IN
         IF rowOf[last] <= rowOf[h] THEN Append(sorted, h)
         ELSE Append(InsertByRow(SubSeq(sorted, 1, Len(sorted) - 1), h, rowOf), last)

RECURSIVE SortByRow(_, _)
SortByRow(s, rowOf) ==
    IF s = <<>> THEN <<>>
    ELSE InsertByRow(SortByRow(SubSeq(s, 1, Len(s) - 1), rowOf), s[Len(s)], rowOf)

\* the pushes of one commit: for (const parent of commit.parents) { if (!hashToRow.has(parent)) continue; ...push }
RECURSIVE PushChildren(_, _, _, _)
PushChildren(its, map, commit, k) ==
    IF k > Len(commit.parents) THEN map
    ELSE LET parent == commit.parents[k] IN
         IF ~Visible(its, parent) THEN PushChildren(its, map, commit, k + 1)
         ELSE LET children == IF parent \in DOMAIN map THEN map[parent] ELSE <<>> IN
              PushChildren(its, Put(map, parent, Append(children, commit.hash)), commit, k + 1)

RECURSIVE CollectChildren(_, _, _)
CollectChildren(its, map, row) ==
    IF row >= Length(its) THEN map
    ELSE CollectChildren(its, PushChildren(its, map, its[row], 1), row + 1)

childHashesByParent(its) ==
    LET pushed == CollectChildren(its, EmptyMap, 0) IN
    [p \in DOMAIN pushed |-> SortByRow(pushed[p], hashToRow(its))]

\* a walk that follows parents[0] only, visible or not
RECURSIVE MainlineWalkRawFirstParent(_, _, _)
MainlineWalkRawFirstParent(its, cursor, mainline) ==
    IF cursor \in mainline THEN mainline
    ELSE LET added == mainline \cup {cursor} IN
         IF cursor \notin DOMAIN commitByHash(its) THEN added
         ELSE LET ps == commitByHash(its)[cursor].parents IN
              IF ps = <<>> \/ ~Visible(its, ps[1]) THEN added
              ELSE MainlineWalkRawFirstParent(its, ps[1], added)

\* the mainline walk: while (cursor && !mainline.has(cursor)) { ... }
RECURSIVE MainlineWalk(_, _, _)
MainlineWalk(its, cursor, mainline) ==
    IF cursor \in mainline THEN mainline
    ELSE LET added == mainline \cup {cursor} IN
         IF cursor \notin DOMAIN commitByHash(its) THEN added
         ELSE LET next == FirstVisibleParent(its, commitByHash(its)[cursor]) IN
              IF next = Undefined THEN added
              ELSE MainlineWalk(its, next, added)

\* a mainline that follows the last visible parent instead of the first
RECURSIVE MainlineWalkLastParent(_, _, _)
MainlineWalkLastParent(its, cursor, mainline) ==
    IF cursor \in mainline THEN mainline
    ELSE LET added == mainline \cup {cursor}
             vis == SelectSeq(commitByHash(its)[cursor].parents, LAMBDA p : Visible(its, p))
         IN  IF vis = <<>> THEN added
             ELSE MainlineWalkLastParent(its, vis[Len(vis)], added)
MainlineLastParent(its) ==
    IF Length(its) > 0 THEN MainlineWalkLastParent(its, its[0].hash, {}) ELSE {}

Mainline(its) ==
    IF Length(its) > 0 THEN MainlineWalk(its, its[0].hash, {}) ELSE {}

\* the primary child is the first child of the ordered list, whatever it is
PrimaryChildNearestHead(its, mainline, parentHash, children) == children[1]

\* one entry of primaryChildByParent
PrimaryChildOf(its, mainline, parentHash, children) ==
    LET onMainline ==
            FindFirst(children, {i \in 1..Len(children) : children[i] \in mainline})
        firstParentChild ==
            FindFirst(children,
                {i \in 1..Len(children) :
                    /\ children[i] \in DOMAIN commitByHash(its)
                    /\ Len(commitByHash(its)[children[i]].parents) > 0
                    /\ commitByHash(its)[children[i]].parents[1] = parentHash})
    IN  IF onMainline # Undefined THEN onMainline
        ELSE IF firstParentChild # Undefined THEN firstParentChild
        ELSE children[1]

primaryChildByParent(its, mainline) ==
    LET byParent == childHashesByParent(its) IN
    [p \in {q \in DOMAIN byParent : Len(byParent[q]) > 0} |->
        PrimaryChildOf(its, mainline, p, byParent[p])]

\* an allocation that forgets nextLane += 1
allocateLaneAgain(st) ==
    LET lane == st.nextLane IN
    [lane |-> lane, nextLane |-> st.nextLane, laneCount |-> Max(st.laneCount, lane + 1)]

\* an allocation that steps nextLane by 2
allocateLaneSkipping(st) ==
    LET lane == st.nextLane IN
    [lane |-> lane, nextLane |-> st.nextLane + 2, laneCount |-> Max(st.laneCount, lane + 1)]

\* allocateLane(): state is [nextLane, laneCount]; returns the lane and the new counters
allocateLane(st) ==
    LET lane == st.nextLane IN
    [lane |-> lane, nextLane |-> st.nextLane + 1, laneCount |-> Max(st.laneCount, lane + 1)]

\* inheriting without the parentLane !== 0 test
InheritAnyLane(commit, firstParent, primary, st) ==
    LET parentLane == IF firstParent \in DOMAIN st.laneByHash THEN st.laneByHash[firstParent] ELSE 0
        primaryChild == IF firstParent \in DOMAIN primary THEN primary[firstParent] ELSE Undefined
    IN  IF primaryChild = commit.hash
        THEN [lane |-> parentLane, nextLane |-> st.nextLane, laneCount |-> st.laneCount]
        ELSE allocateLane(st)

\* a parent without a lane yet counts as holding lane 1 (?? 1)
InheritFromUnplacedParent(commit, firstParent, primary, st) ==
    LET parentLane == IF firstParent \in DOMAIN st.laneByHash THEN st.laneByHash[firstParent] ELSE 1
        primaryChild == IF firstParent \in DOMAIN primary THEN primary[firstParent] ELSE Undefined
    IN  IF primaryChild = commit.hash /\ parentLane # 0
        THEN [lane |-> parentLane, nextLane |-> st.nextLane, laneCount |-> st.laneCount]
        ELSE allocateLane(st)

\* lane of a commit off the mainline that has a visible first parent
InheritOrAllocate(commit, firstParent, primary, st) ==
    LET parentLane == IF firstParent \in DOMAIN st.laneByHash THEN st.laneByHash[firstParent] ELSE 0
        primaryChild == IF firstParent \in DOMAIN primary THEN primary[firstParent] ELSE Undefined
    IN  IF primaryChild = commit.hash /\ parentLane # 0
        THEN [lane |-> parentLane, nextLane |-> st.nextLane, laneCount |-> st.laneCount]
        ELSE allocateLane(st)

\* body of the lane loop for one row
PlaceRow(its, mainline, primary, row, st) ==
    LET commit == its[row]
        firstParent == FirstVisibleParent(its, commit)
        chosen == IF commit.hash \in mainline
                  THEN [lane |-> 0, nextLane |-> st.nextLane, laneCount |-> st.laneCount]
                  ELSE IF firstParent # Undefined
                       THEN InheritOrAllocate(commit, firstParent, primary, st)
                       ELSE allocateLane(st)
    IN  [laneByRow  |-> Put(st.laneByRow, row, chosen.lane),
         laneByHash |-> Put(st.laneByHash, commit.hash, chosen.lane),
         nextLane   |-> chosen.nextLane,
         laneCount  |-> Max(chosen.laneCount, chosen.lane + 1)]

\* a lane loop that stops before row 0 (row > 0)
RECURSIVE LaneLoopSkipsRowZero(_, _, _, _, _)
LaneLoopSkipsRowZero(its, mainline, primary, row, st) ==
    IF row < 1 THEN st
    ELSE LaneLoopSkipsRowZero(its, mainline, primary, row - 1,
                              PlaceRow(its, mainline, primary, row, st))

\* for (let row = items.length - 1; row >= 0; row -= 1); st holds the
\* counters as the rows below left them (nextLane starts at 1 and never falls)
RECURSIVE LaneLoop(_, _, _, _, _)
LaneLoop(its, mainline, primary, row, st) ==
    IF row < 0 \/ st.nextLane < 1 THEN st
    ELSE LaneLoop(its, mainline, primary, row - 1, PlaceRow(its, mainline, primary, row, st))

LaneInit == [laneByRow |-> EmptyMap, laneByHash |-> EmptyMap, nextLane |-> 1, laneCount |-> 1]

\* an edge loop body that skips only strictly newer parents (parentRow < row)
RECURSIVE EdgesOfRowAllowSelf(_, _, _, _, _)
EdgesOfRowAllowSelf(its, lanes, row, k, edges) ==
    LET commit == its[row]
        fromLane == lanes.laneByHash[commit.hash]
    IN  IF k > Len(commit.parents) THEN edges
        ELSE LET parent == commit.parents[k] IN
             IF ~Visible(its, parent) \/ hashToRow(its)[parent] < row
             THEN EdgesOfRowAllowSelf(its, lanes, row, k + 1, edges)
             ELSE EdgesOfRowAllowSelf(its, lanes, row, k + 1,
                      Append(edges, [fromRow |-> row, toRow |-> hashToRow(its)[parent],
                                     fromLane |-> fromLane,
                                     toLane |-> lanes.laneByHash[parent]]))

\* an edge loop body that gives the edge the lane of its source at both ends
RECURSIVE EdgesOfRowSameLane(_, _, _, _, _)
EdgesOfRowSameLane(its, lanes, row, k, edges) ==
    LET commit == its[row]
        fromLane == lanes.laneByHash[commit.hash]
    IN  IF k > Len(commit.parents) THEN edges
        ELSE LET parent == commit.parents[k] IN
             IF ~Visible(its, parent) \/ hashToRow(its)[parent] <= row
             THEN EdgesOfRowSameLane(its, lanes, row, k + 1, edges)
             ELSE EdgesOfRowSameLane(its, lanes, row, k + 1,
                      Append(edges, [fromRow |-> row, toRow |-> hashToRow(its)[parent],
                                     fromLane |-> fromLane, toLane |-> fromLane]))

\* edges pushed for one row
RECURSIVE EdgesOfRow(_, _, _, _, _)
EdgesOfRow(its, lanes, row, k, edges) ==
    LET commit == its[row]
        fromLane == IF commit.hash \in DOMAIN lanes.laneByHash THEN lanes.laneByHash[commit.hash]
                    ELSE IF row \in DOMAIN lanes.laneByRow THEN lanes.laneByRow[row] ELSE 0
    IN  IF k > Len(commit.parents) THEN edges
        ELSE LET parent == commit.parents[k] IN
             IF ~Visible(its, parent) \/ hashToRow(its)[parent] <= row
             THEN EdgesOfRow(its, lanes, row, k + 1, edges)
             ELSE LET parentRow == hashToRow(its)[parent]
                      toLane == IF parent \in DOMAIN lanes.laneByHash
                                THEN lanes.laneByHash[parent] ELSE fromLane
                  IN  EdgesOfRow(its, lanes, row, k + 1,
                          Append(edges, [fromRow |-> row, toRow |-> parentRow,
                                         fromLane |-> fromLane, toLane |-> toLane]))

\* for (let row = 0; row < items.length; row += 1)
RECURSIVE EdgeLoop(_, _, _, _)
EdgeLoop(its, lanes, row, edges) ==
    IF row >= Length(its) THEN edges
    ELSE EdgeLoop(its, lanes, row + 1, EdgesOfRow(its, lanes, row, 1, edges))

laneStepOf(laneCount) ==
    IF laneCount <= 1 THEN LANE_WIDTH
    ELSE Min(LANE_WIDTH,
             Max(8, (MAX_GRAPH_WIDTH - LANE_PADDING * 2 - LANE_WIDTH) \div (laneCount - 1)))

buildGraph(its) ==
    LET mainline == Mainline(its)
        primary == primaryChildByParent(its, mainline)
        lanes == LaneLoop(its, mainline, primary, Length(its) - 1, LaneInit)
        edges == EdgeLoop(its, lanes, 0, <<>>)
        laneStep == laneStepOf(lanes.laneCount)
    IN  [laneByRow |-> lanes.laneByRow,
         edges     |-> edges,
         laneCount |-> lanes.laneCount,
         laneStep  |-> laneStep,
         width     |-> LANE_PADDING * 2 + (lanes.laneCount - 1) * laneStep + LANE_WIDTH,
         height    |-> Length(its) * ROW_HEIGHT]

----------------------------------------------------------------------------
(* buildFlowBranchLabelMap *)

\* A branch name is the sequence of its "/"-separated segments:
\* origin/main is <<"origin", "main">>.  A label is a name.
Null == "null"

BranchInfo(n, cur, rem, tip) ==
    [name |-> n, isCurrent |-> cur, isRemote |-> rem, targetHash |-> tip]

\* String.prototype.localeCompare on the words used as segments (alphabetical)
Words == <<"detached", "dev", "feature", "main", "origin", "upstream">>
WordRank(w) == CHOOSE i \in 1..Len(Words) : Words[i] = w

\* a.name.localeCompare(b.name): negative, zero or positive
RECURSIVE localeCompare(_, _)
localeCompare(a, b) ==
    IF a = <<>> /\ b = <<>> THEN 0
    ELSE IF a = <<>> THEN -1
    ELSE IF b = <<>> THEN 1
    ELSE IF WordRank(Head(a)) # WordRank(Head(b)) THEN WordRank(Head(a)) - WordRank(Head(b))
    ELSE localeCompare(Tail(a), Tail(b))

\* a priority that ignores isCurrent
priorityIgnoringCurrent(branch) == IF branch.isRemote THEN 2 ELSE 1

\* branch.isCurrent ? 0 : branch.isRemote ? 2 : 1
branchPriority(branch) ==
    IF branch.isCurrent THEN 0 ELSE IF branch.isRemote THEN 2 ELSE 1

\* the comparator handed to sort
\* a comparison by priority alone, equal priorities keeping the input order
compareBranchesByPriority(a, b) == branchPriority(a) - branchPriority(b)

compareBranches(a, b) ==
    IF branchPriority(a) # branchPriority(b) THEN branchPriority(a) - branchPriority(b)
    ELSE localeCompare(a.name, b.name)

\* [...branchItems].sort(compare): a stable sort of a copy
RECURSIVE InsertBranch(_, _)
InsertBranch(sorted, b) ==
    IF sorted = <<>> THEN <<b>>
    ELSE LET last == sorted[Len(sorted)] IN
         IF compareBranches(last, b) <= 0 THEN Append(sorted, b)
         ELSE Append(InsertBranch(SubSeq(sorted, 1, Len(sorted) - 1), b), last)

RECURSIVE sortedBranches(_)
sortedBranches(brs) ==
    IF brs = <<>> THEN <<>>
    ELSE InsertBranch(sortedBranches(SubSeq(brs, 1, Len(brs) - 1)), brs[Len(brs)])

\* a sort of the caller's array itself: branchItems.sort(compare)
callerBranchesSortedInPlace(brs) == sortedBranches(brs)

\* the caller's array after the call: the sort works on the copy [...branchItems]
callerBranchesAfterSort(brs) == brs

\* name.replace(/^origin\//, '')
stripOriginPrefix(name) ==
    IF Len(name) >= 2 /\ name[1] = "origin" THEN Tail(name) ELSE name

displayLabel(branch) ==
    IF branch.isRemote THEN stripOriginPrefix(branch.name) ELSE branch.name

\* an overwrite test that also replaces on equal priority and distance
shouldAssignOnTie(assignments, cursor, priority, distance) ==
    \/ cursor \notin DOMAIN assignments
    \/ priority < assignments[cursor].priority
    \/ (priority = assignments[cursor].priority /\ distance <= assignments[cursor].distance)

\* !existing || priority < existing.priority ||
\* (priority === existing.priority && distance < existing.distance)
shouldAssign(assignments, cursor, priority, distance) ==
    \/ cursor \notin DOMAIN assignments
    \/ priority < assignments[cursor].priority
    \/ (priority = assignments[cursor].priority /\ distance < assignments[cursor].distance)

\* a walk that follows the first parent whether or not it is visible
RECURSIVE branchWalkRawFirstParent(_, _, _, _, _)
branchWalkRawFirstParent(its, assignments, label, priority, w) ==
    IF ~(/\ Visible(its, w.cursor)
         /\ w.cursor \notin w.seen
         /\ w.distance <= Length(its) + 8)
    THEN assignments
    ELSE LET assigned ==
                 IF shouldAssign(assignments, w.cursor, priority, w.distance)
                 THEN Put(assignments, w.cursor,
                          [label |-> label, priority |-> priority, distance |-> w.distance])
                 ELSE assignments
             parents == commitByHash(its)[w.cursor].parents
         IN  IF parents = <<>> THEN assigned
             ELSE branchWalkRawFirstParent(its, assigned, label, priority,
                             [cursor |-> parents[1], distance |-> w.distance + 1,
                              seen |-> w.seen \cup {w.cursor}])

\* the while loop of one branch; w is [cursor, distance, seen]
RECURSIVE branchWalk(_, _, _, _, _)
branchWalk(its, assignments, label, priority, w) ==
    IF ~(/\ Visible(its, w.cursor)
         /\ w.cursor \notin w.seen
         /\ w.distance <= Length(its) + 8)
    THEN assignments
    ELSE LET assigned ==
                 IF shouldAssign(assignments, w.cursor, priority, w.distance)
                 THEN Put(assignments, w.cursor,
                          [label |-> label, priority |-> priority, distance |-> w.distance])
                 ELSE assignments
             next == FirstVisibleParent(its, commitByHash(its)[w.cursor])
         IN  IF next = Undefined THEN assigned
             ELSE branchWalk(its, assigned, label, priority,
                             [cursor |-> next, distance |-> w.distance + 1,
                              seen |-> w.seen \cup {w.cursor}])

\* body of for (const branch of sortedBranches)
walkBranch(its, assignments, branch) ==
    LET tip == branch.targetHash IN
    IF tip = Null \/ ~Visible(its, tip) THEN assignments
    ELSE branchWalk(its, assignments, displayLabel(branch), branchPriority(branch),
                    [cursor |-> tip, distance |-> 0, seen |-> {}])

RECURSIVE walkBranches(_, _, _, _)
walkBranches(its, sorted, k, assignments) ==
    IF k > Len(sorted) THEN assignments
    ELSE walkBranches(its, sorted, k + 1, walkBranch(its, assignments, sorted[k]))

buildFlowBranchLabelMap(its, brs) ==
    LET assignments == walkBranches(its, sortedBranches(brs), 1, EmptyMap) IN
    [h \in DOMAIN assignments |-> assignments[h].label]

----------------------------------------------------------------------------
(* buildLaneByHashMap *)

\* map.set(commit.hash, graph.laneByRow[row] ?? 0), later rows overwriting
buildLaneByHashMap(its, graph) ==
    [h \in {its[r].hash : r \in Rows(its)} |->
        LET row == SetMax({r \in Rows(its) : its[r].hash = h}) IN
        IF row \in DOMAIN graph.laneByRow THEN graph.laneByRow[row] ELSE 0]

----------------------------------------------------------------------------
(* normalizedType and relationOf: a message is the sequence of its          *)
(* characters, a type label the sequence of its (lower-case) characters.   *)

LowerLetters == <<"a", "b", "c", "d", "e", "f", "g", "h", "i", "j", "k", "l", "m",
                  "n", "o", "p", "q", "r", "s", "t", "u", "v", "w", "x", "y", "z">>
UpperLetters == <<"A", "B", "C", "D", "E", "F", "G", "H", "I", "J", "K", "L", "M",
                  "N", "O", "P", "Q", "R", "S", "T", "U", "V", "W", "X", "Y", "Z">>
Digits == {"0", "1", "2", "3", "4", "5", "6", "7", "8", "9"}

Letters == Range(LowerLetters) \cup Range(UpperLetters)
UpperSet == Range(UpperLetters)
IsLetter(c) == c \in Letters
IsWordChar(c) == IsLetter(c) \/ c \in Digits \/ c = "_"
IsSpace(c) == c \in {" ", "\t", "\n"}
toLowerCase(c) ==
    IF c \in UpperSet
    THEN LowerLetters[CHOOSE i \in 1..26 : UpperLetters[i] = c]
    ELSE c
LowerCase(s) == [i \in 1..Len(s) |-> toLowerCase(s[i])]

\* the text matches word, ignoring case, at position pos
MatchesAt(text, pos, word) ==
    /\ pos + Len(word) - 1 <= Len(text)
    /\ \A i \in 1..Len(word) : toLowerCase(text[pos + i - 1]) = word[i]

\* /^([a-z]+)(\([^)]+\))?!?:/i : the captured token, or NoToken without a match
NoToken == <<>>
conventionalToken(message) ==
    LET n == SetMin({k \in 1..Len(message) : ~IsLetter(message[k])}
                       \cup {Len(message) + 1}) - 1
        closing == {j \in (n + 3)..Len(message) :
                       /\ message[j] = ")"
                       /\ \A i \in (n + 2)..(j - 1) : message[i] # ")"}
        afterScope ==
            IF n + 1 <= Len(message) /\ message[n + 1] = "(" /\ closing # {}
            THEN (CHOOSE j \in closing : TRUE) + 1
            ELSE n + 1
        afterBang ==
            IF afterScope <= Len(message) /\ message[afterScope] = "!"
            THEN afterScope + 1 ELSE afterScope
    IN  IF n >= 1 /\ afterBang <= Len(message) /\ message[afterBang] = ":"
        THEN SubSeq(message, 1, n)
        ELSE NoToken

\* /^merge\b/i and /^revert\b/i
StartsWithWord(message, word) ==
    /\ MatchesAt(message, 1, word)
    /\ (Len(message) = Len(word) \/ ~IsWordChar(message[Len(word) + 1]))

\* /cherry[\s-]?pick/i
HasCherryPick(message) ==
    \E pos \in 1..Len(message) :
        /\ MatchesAt(message, pos, <<"c", "h", "e", "r", "r", "y">>)
        /\ \/ MatchesAt(message, pos + 6, <<"p", "i", "c", "k">>)
           \/ /\ pos + 6 <= Len(message)
              /\ (IsSpace(message[pos + 6]) \/ message[pos + 6] = "-")
              /\ MatchesAt(message, pos + 7, <<"p", "i", "c", "k">>)

MergeType == <<"m", "e", "r", "g", "e">>
RevertType == <<"r", "e", "v", "e", "r", "t">>
CherryPickType == <<"c", "h", "e", "r", "r", "y", "-", "p", "i", "c", "k">>
CommitType == <<"c", "o", "m", "m", "i", "t">>

\* a typing that returns the conventional token as written
normalizedTypeKeepingCase(message) ==
    IF conventionalToken(message) # NoToken THEN conventionalToken(message)
    ELSE IF StartsWithWord(message, MergeType) THEN MergeType
    ELSE IF StartsWithWord(message, RevertType) THEN RevertType
    ELSE IF HasCherryPick(message) THEN CherryPickType
    ELSE CommitType

\* the precedence of lines 218-223
normalizedType(message) ==
    LET token == conventionalToken(message) IN
    IF token # NoToken THEN LowerCase(token)
    ELSE IF StartsWithWord(message, MergeType) THEN MergeType
    ELSE IF StartsWithWord(message, RevertType) THEN RevertType
    ELSE IF HasCherryPick(message) THEN CherryPickType
    ELSE CommitType

NoRelation == [kind |-> "none", label |-> "none"]

relationOf(message) ==
    IF StartsWithWord(message, MergeType) THEN [kind |-> "merge", label |-> "Merge"]
    ELSE IF StartsWithWord(message, RevertType) THEN [kind |-> "revert", label |-> "Revert"]
    ELSE IF HasCherryPick(message) THEN [kind |-> "cherry-pick", label |-> "Cherry-pick"]
    ELSE NoRelation

----------------------------------------------------------------------------
(* buildFlowGroups *)

Detached == <<"detached">>

\* the resolver of the callers: labels.get(commit.hash) ?? 'detached'
resolveBranchLabel(labels, commit) ==
    IF commit.hash \in DOMAIN labels THEN labels[commit.hash] ELSE Detached

\* a test that lets the open group take one commit too many (<=)
canAppendUpToLimit(gs, branchLabel, typeLabel, commit) ==
    /\ gs # <<>>
    /\ LET current == gs[Len(gs)] IN
       /\ current.branchLabel = branchLabel
       /\ current.typeLabel = typeLabel
       /\ Len(current.commits) <= FLOW_MAX_GROUP_SIZE
       /\ Abs(current.endedAt - commit.date) <= FLOW_WINDOW_MS

\* a window test that rejects a gap of exactly the window (<)
canAppendInsideWindow(gs, branchLabel, typeLabel, commit) ==
    /\ gs # <<>>
    /\ LET current == gs[Len(gs)] IN
       /\ current.branchLabel = branchLabel
       /\ current.typeLabel = typeLabel
       /\ Len(current.commits) < FLOW_MAX_GROUP_SIZE
       /\ Abs(current.endedAt - commit.date) < FLOW_WINDOW_MS

\* a test without the time window
canAppendAnyDate(gs, branchLabel, typeLabel, commit) ==
    /\ gs # <<>>
    /\ LET current == gs[Len(gs)] IN
       /\ current.branchLabel = branchLabel
       /\ current.typeLabel = typeLabel
       /\ Len(current.commits) < FLOW_MAX_GROUP_SIZE

\* a test that ignores the type of the commit
canAppendAnyType(gs, branchLabel, typeLabel, commit) ==
    /\ gs # <<>>
    /\ LET current == gs[Len(gs)] IN
       /\ current.branchLabel = branchLabel
       /\ Len(current.commits) < FLOW_MAX_GROUP_SIZE
       /\ Abs(current.endedAt - commit.date) <= FLOW_WINDOW_MS

\* canAppend, with current = groups[groups.length - 1]
canAppend(gs, branchLabel, typeLabel, commit) ==
    /\ gs # <<>>
    /\ LET current == gs[Len(gs)] IN
       /\ current.branchLabel = branchLabel
       /\ current.typeLabel = typeLabel
       /\ Len(current.commits) < FLOW_MAX_GROUP_SIZE
       /\ Abs(current.endedAt - commit.date) <= FLOW_WINDOW_MS

\* a group that is seeded on lane 0 whatever the lane of its commit
startGroupOnLaneZero(commit, lane, branchLabel, typeLabel, relation) ==
    [id          |-> commit.hash,
     lane        |-> 0,
     branchLabel |-> branchLabel,
     typeLabel   |-> typeLabel,
     startedAt   |-> commit.date,
     endedAt     |-> commit.date,
     commits     |-> <<commit>>,
     relations   |-> IF relation # NoRelation
                     THEN <<[kind |-> relation.kind, label |-> relation.label, count |-> 1]>>
                     ELSE <<>>]

\* groups.push({ id, lane, branchLabel, typeLabel, startedAt, endedAt, commits, relations })
startGroup(commit, lane, branchLabel, typeLabel, relation) ==
    [id          |-> commit.hash,
     lane        |-> lane,
     branchLabel |-> branchLabel,
     typeLabel   |-> typeLabel,
     startedAt   |-> commit.date,
     endedAt     |-> commit.date,
     commits     |-> <<commit>>,
     relations   |-> IF relation # NoRelation
                     THEN <<[kind |-> relation.kind, label |-> relation.label, count |-> 1]>>
                     ELSE <<>>]

\* a bookkeeping that pushes a new entry for every related commit
countRelationAlwaysPush(relations, relation) ==
    IF relation = NoRelation THEN relations
    ELSE Append(relations, [kind |-> relation.kind, label |-> relation.label, count |-> 1])

\* the relation bookkeeping of an append
countRelation(relations, relation) ==
    IF relation = NoRelation THEN relations
    ELSE IF \E i \in 1..Len(relations) : relations[i].kind = relation.kind
    THEN LET i == CHOOSE k \in 1..Len(relations) :
                      /\ relations[k].kind = relation.kind
                      /\ \A j \in 1..(k - 1) : relations[j].kind # relation.kind
         IN  [relations EXCEPT ![i].count = @ + 1]
    ELSE Append(relations, [kind |-> relation.kind, label |-> relation.label, count |-> 1])

\* an append that overwrites the group's commits with the new one
appendReplacing(current, commit, relation) ==
    [current EXCEPT
        !.commits = <<commit>>,
        !.endedAt = commit.date,
        !.startedAt = Max(current.startedAt, commit.date),
        !.relations = countRelation(current.relations, relation)]

\* an append that leaves startedAt at the date of the first commit
appendKeepingStart(current, commit, relation) ==
    [current EXCEPT
        !.commits = Append(current.commits, commit),
        !.endedAt = commit.date,
        !.relations = countRelation(current.relations, relation)]

\* current.commits.push(commit); current.endedAt = ...; current.startedAt = ...; relations
appendToCurrent(current, commit, relation) ==
    [current EXCEPT
        !.commits = Append(current.commits, commit),
        !.endedAt = commit.date,
        !.startedAt = Max(current.startedAt, commit.date),
        !.relations = countRelation(current.relations, relation)]

\* one iteration of for (const commit of commits)
flowStep(gs, commit, lanes, labels) ==
    LET branchLabel == resolveBranchLabel(labels, commit)
        typeLabel == normalizedType(commit.message)
        relation == relationOf(commit.message)
        lane == IF commit.hash \in DOMAIN lanes THEN lanes[commit.hash] ELSE 0
    IN  IF ~canAppend(gs, branchLabel, typeLabel, commit)
        THEN Append(gs, startGroup(commit, lane, branchLabel, typeLabel, relation))
        ELSE [gs EXCEPT ![Len(gs)] = appendToCurrent(gs[Len(gs)], commit, relation)]

RECURSIVE flowLoop(_, _, _, _, _)
flowLoop(commits, k, lanes, labels, gs) ==
    IF k >= Length(commits) THEN gs
    ELSE flowLoop(commits, k + 1, lanes, labels, flowStep(gs, commits[k], lanes, labels))

buildFlowGroups(commits, lanes, labels) == flowLoop(commits, 0, lanes, labels, <<>>)

----------------------------------------------------------------------------
(* The histories handed to the engine. Rows 0..n-1 carry the distinct      *)
(* hashes C0..C(n-1). The caller builds a snapshot by adding parent        *)
(* hashes: a parent is any visible hash (older, newer or the commit        *)
(* itself) or the external hash, and no commit names a parent twice.       *)

BlankHistory(n) == [r \in 0..(n - 1) |-> CommitSummary(HashOfRow(r), NoMessage, 0, <<>>)]

RECURSIVE ParentRefsFrom(_, _)
ParentRefsFrom(its, row) ==
    IF row >= Length(its) THEN 0 ELSE Len(its[row].parents) + ParentRefsFrom(its, row + 1)
ParentRefCount(its) == ParentRefsFrom(its, 0)

\* the collaborator records one more parent hash on a commit of the snapshot
SupplyParent(maxRefs) ==
    /\ pc = "input"
    /\ ParentRefCount(items) < maxRefs
    /\ \E r \in Rows(items), p \in {items[q].hash : q \in Rows(items)} \cup {External} :
          /\ Len(items[r].parents) < MaxParents
          /\ p \notin Range(items[r].parents)
          /\ items' = [items EXCEPT ![r].parents = Append(@, p)]
    /\ UNCHANGED <<pc, branchItems, layout, labelMap, laneByHash, groups, walk>>

\* the diamond history C0(C1,C2), C1(C3), C2(C3), C3()
ScenarioCommits ==
    [r \in 0..3 |->
        CommitSummary(HashOfRow(r), NoMessage, 0,
            CASE r = 0 -> <<"C1", "C2">>
              [] r = 1 -> <<"C3">>
              [] r = 2 -> <<"C3">>
              [] r = 3 -> <<>>)]

\* no walk in progress
NoWalk == [kind |-> "none", tip |-> Undefined, cursor |-> Undefined, seen |-> {},
           distance |-> 0, assignments |-> EmptyMap, visits |-> <<>>]

NoLayout == [laneByRow |-> EmptyMap, edges |-> <<>>, laneCount |-> 0,
             laneStep |-> 0, width |-> 0, height |-> 0]

InitGraph ==
    /\ pc = "input"
    /\ items \in {BlankHistory(n) : n \in 0..MaxCommits} \cup {ScenarioCommits}
    /\ branchItems = <<>>
    /\ layout = NoLayout
    /\ labelMap = EmptyMap
    /\ laneByHash = EmptyMap
    /\ groups = <<>>
    /\ walk = NoWalk

SupplyGraphParent == SupplyParent(MaxParentRefs)

\* const layout = buildGraph(items)
BuildGraph ==
    /\ pc = "input"
    /\ layout' = buildGraph(items)
    /\ pc' = "done"
    /\ UNCHANGED <<items, branchItems, labelMap, laneByHash, groups, walk>>

NextGraph == SupplyGraphParent \/ BuildGraph

SpecGraph == InitGraph /\ [][NextGraph]_vars

----------------------------------------------------------------------------
(* Histories of many rows handed to buildGraph: every commit is parentless  *)
(* (a root, or a commit whose parents lie outside the loaded page) but for *)
(* a few that have the commit of the next row as their parent.              *)

InitWide ==
    /\ pc = "input"
    /\ items \in {BlankHistory(n) : n \in 0..MaxWideCommits}
    /\ branchItems = <<>>
    /\ layout = NoLayout
    /\ labelMap = EmptyMap
    /\ laneByHash = EmptyMap
    /\ groups = <<>>
    /\ walk = NoWalk

SupplyNextRowParent ==
    /\ pc = "input"
    /\ ParentRefCount(items) < MaxNextRowParents
    /\ \E r \in Rows(items) :
          /\ r + 1 \in Rows(items)
          /\ items[r].parents = <<>>
          /\ items' = [items EXCEPT ![r].parents = <<items[r + 1].hash>>]
    /\ UNCHANGED <<pc, branchItems, layout, labelMap, laneByHash, groups, walk>>

NextWide == SupplyNextRowParent \/ BuildGraph

SpecWide == InitWide /\ [][NextWide]_vars

----------------------------------------------------------------------------
(* Inputs of buildFlowBranchLabelMap: a history as above or the diamond    *)
(* history, and a branch list in which names are unique among the local    *)
(* and among the remote branches and at most one branch is current.        *)

BranchIdentities ==
    {[name |-> <<"main">>, isRemote |-> FALSE],
     [name |-> <<"feature">>, isRemote |-> FALSE],
     [name |-> <<"origin", "main">>, isRemote |-> FALSE],
     [name |-> <<"origin", "main">>, isRemote |-> TRUE],
     [name |-> <<"origin", "feature">>, isRemote |-> TRUE],
     [name |-> <<"upstream", "main">>, isRemote |-> TRUE]}

BranchTips == {Null} \cup {HashOfRow(r) : r \in 0..(MaxLabelCommits - 1)}

\* the collaborator adds one branch to the snapshot
SupplyBranch ==
    /\ pc = "input"
    /\ Len(branchItems) < MaxBranches
    /\ \E id \in BranchIdentities, cur \in BOOLEAN, tip \in BranchTips :
          /\ \A i \in 1..Len(branchItems) :
                ~(branchItems[i].name = id.name /\ branchItems[i].isRemote = id.isRemote)
          /\ cur => \A i \in 1..Len(branchItems) : ~branchItems[i].isCurrent
          /\ branchItems' = Append(branchItems, BranchInfo(id.name, cur, id.isRemote, tip))
    /\ UNCHANGED <<pc, items, layout, labelMap, laneByHash, groups, walk>>

InitLabels ==
    /\ pc = "input"
    /\ items \in {BlankHistory(n) : n \in 0..MaxLabelCommits} \cup {ScenarioCommits}
    /\ branchItems = <<>>
    /\ layout = NoLayout
    /\ labelMap = EmptyMap
    /\ laneByHash = EmptyMap
    /\ groups = <<>>
    /\ walk = NoWalk

SupplyLabelParent == SupplyParent(MaxLabelParentRefs)

\* const labels = buildFlowBranchLabelMap(items, branchItems)
BuildLabels ==
    /\ pc = "input"
    /\ labelMap' = buildFlowBranchLabelMap(items, branchItems)
    /\ branchItems' = callerBranchesAfterSort(branchItems)
    /\ pc' = "done"
    /\ UNCHANGED <<items, layout, laneByHash, groups, walk>>

NextLabels == SupplyLabelParent \/ SupplyBranch \/ BuildLabels

SpecLabels == InitLabels /\ [][NextLabels]_vars

----------------------------------------------------------------------------
(* The grouping loop of buildFlowGroups, one iteration per step. The       *)
(* commits arrive in input order; after each iteration groups is the value *)
(* buildFlowGroups returns for the commits consumed so far (the last open  *)
(* group is final as it stands). labelMap is the table behind the          *)
(* resolver and laneByHash the lane map of the call.                       *)

FeatMessage == <<"f", "e", "a", "t", ":", " ", "a">>
PickedFeatMessage == <<"f", "e", "a", "t", ":", " ", "c", "h", "e", "r", "r", "y", "p", "i", "c", "k">>
MergeMessage == <<"M", "e", "r", "g", "e", " ", "b">>
RevertMessage == <<"R", "e", "v", "e", "r", "t", " ", "c">>
CherryPickMessage == <<"c", "h", "e", "r", "r", "y", "-", "p", "i", "c", "k", " ", "d">>
PlainMessage == <<"w", "i", "p">>
FlowMessages == {FeatMessage, PickedFeatMessage, MergeMessage, RevertMessage,
                 CherryPickMessage, PlainMessage}
FlowDates == {0, FLOW_WINDOW_MS, FLOW_WINDOW_MS + 1}
NoLabel == <<>>                            \* the resolver's table gets no entry
FlowLabels == {<<"main">>, NoLabel}
\* date and label of a commit: every date on main, and the first date
\* without an entry in the resolver's table
FlowStamps == {st \in [date : FlowDates, label : FlowLabels] :
                  st.label = NoLabel => st.date = 0}
\* the gaps of the scenario, in milliseconds: ten minutes and eight hours
TenMinutes == 1000 * 60 * 10
EightHours == 1000 * 60 * 60 * 8
ScenarioStamps == {[date |-> d, label |-> <<"main">>] : d \in {TenMinutes, EightHours}}
\* the second commit of the scenario follows a feat commit on main dated 0
IsScenarioPair(its, labels, msg) ==
    /\ Length(its) = 1
    /\ msg = FeatMessage
    /\ its[0].message = FeatMessage
    /\ its[0].date = 0
    /\ resolveBranchLabel(labels, its[0]) = <<"main">>

\* lane map entry of the commit at a row: none for every third row
LaneEntry(row) == row % 3

SameAttributes(labels, a, b) ==
    /\ a.message = b.message
    /\ a.date = b.date
    /\ resolveBranchLabel(labels, a) = resolveBranchLabel(labels, b)

RunCount(its, labels) ==
    IF Length(its) = 0 THEN 0
    ELSE 1 + Cardinality({r \in 1..(Length(its) - 1) :
                            ~SameAttributes(labels, its[r - 1], its[r])})

InitFlow ==
    /\ pc = "scan"
    /\ items = EmptyMap
    /\ branchItems = <<>>
    /\ layout = NoLayout
    /\ labelMap = EmptyMap
    /\ laneByHash = EmptyMap
    /\ groups = <<>>
    /\ walk = NoWalk

\* the loop takes the next commit of the input
ScanCommit ==
    /\ pc = "scan"
    /\ Length(items) < MaxFlowCommits
    /\ IF Length(items) < MaxFreeCommits THEN TRUE
       ELSE RunCount(items, labelMap) <= MaxRuns
    /\ \E msg \in FlowMessages, st \in FlowStamps \cup ScenarioStamps :
          LET row == Length(items)
              commit == CommitSummary(HashOfRow(row), msg, st.date, <<>>)
              labels == IF st.label = NoLabel THEN labelMap
                        ELSE Put(labelMap, commit.hash, st.label)
              lanes == IF LaneEntry(row) = 0 THEN laneByHash
                       ELSE Put(laneByHash, commit.hash, LaneEntry(row))
          IN  /\ st \in ScenarioStamps => IsScenarioPair(items, labelMap, msg)
              /\ \/ row < MaxFreeCommits
                 \/ RunCount(Push(items, commit), labels) <= MaxRuns
              /\ items' = Push(items, commit)
              /\ labelMap' = labels
              /\ laneByHash' = lanes
              /\ groups' = flowStep(groups, commit, lanes, labels)
    /\ UNCHANGED <<pc, branchItems, layout, walk>>

NextFlow == ScanCommit

\* the loop state after each iteration is the result of the whole call on
\* the commits consumed so far
ScanMatchesWholeCall == groups = buildFlowGroups(items, laneByHash, labelMap)

SpecFlow == InitFlow /\ [][NextFlow]_vars

----------------------------------------------------------------------------
(* The three builders in a row, as the component and the test call them:    *)
(* buildGraph and buildLaneByHashMap, buildFlowBranchLabelMap, then the     *)
(* loop of buildFlowGroups with the resolver labels.get(hash) ?? 'detached'.*)
(* The commits of a history carry one message; some have the commit of the  *)
(* next row as parent; the branches point at loaded commits.                *)

EngineHistory(n, msg) ==
    [r \in 0..(n - 1) |-> CommitSummary(HashOfRow(r), msg, 0, <<>>)]

EngineBranchIdentities ==
    {[name |-> <<"main">>, isRemote |-> FALSE],
     [name |-> <<"feature">>, isRemote |-> FALSE],
     [name |-> <<"origin", "main">>, isRemote |-> TRUE]}

InitEngine ==
    /\ pc = "input"
    /\ items \in {EngineHistory(n, msg) : n \in 0..MaxLabelCommits,
                                           msg \in {PlainMessage, MergeMessage}}
    /\ branchItems = <<>>
    /\ layout = NoLayout
    /\ labelMap = EmptyMap
    /\ laneByHash = EmptyMap
    /\ groups = <<>>
    /\ walk = NoWalk

SupplyEngineBranch ==
    /\ pc = "input"
    /\ Len(branchItems) < MaxBranches
    /\ \E id \in EngineBranchIdentities, tip \in {items[r].hash : r \in Rows(items)} :
          /\ \A i \in 1..Len(branchItems) :
                ~(branchItems[i].name = id.name /\ branchItems[i].isRemote = id.isRemote)
          /\ branchItems' = Append(branchItems, BranchInfo(id.name, FALSE, id.isRemote, tip))
    /\ UNCHANGED <<pc, items, layout, labelMap, laneByHash, groups, walk>>

\* const layout = buildGraph(items); const laneByHash = buildLaneByHashMap(items, layout)
BuildLayout ==
    /\ pc = "input"
    /\ layout' = buildGraph(items)
    /\ laneByHash' = buildLaneByHashMap(items, layout')
    /\ pc' = "laid"
    /\ UNCHANGED <<items, branchItems, labelMap, groups, walk>>

\* const labels = buildFlowBranchLabelMap(items, branchItems)
BuildEngineLabels ==
    /\ pc = "laid"
    /\ labelMap' = buildFlowBranchLabelMap(items, branchItems)
    /\ branchItems' = callerBranchesAfterSort(branchItems)
    /\ pc' = "group"
    /\ UNCHANGED <<items, layout, laneByHash, groups, walk>>

\* commits the loop of buildFlowGroups has consumed
RECURSIVE Consumed(_)
Consumed(gs) == IF gs = <<>> THEN 0 ELSE Len(gs[1].commits) + Consumed(Tail(gs))

\* one iteration of the loop of buildFlowGroups over the loaded commits
GroupCommit ==
    /\ pc = "group"
    /\ Consumed(groups) < Length(items)
    /\ groups' = flowStep(groups, items[Consumed(groups)], laneByHash, labelMap)
    /\ UNCHANGED <<pc, items, branchItems, layout, labelMap, laneByHash, walk>>

NextEngine ==
    \/ SupplyNextRowParent
    \/ SupplyEngineBranch
    \/ BuildLayout
    \/ BuildEngineLabels
    \/ GroupCommit

SpecEngine == InitEngine /\ [][NextEngine]_vars

----------------------------------------------------------------------------
(* Commit messages handed to the typing of buildFlowGroups: every text     *)
(* made of at most MaxPieces pieces. The pieces spell the words the        *)
(* typing looks for, in mixed letter case, and the characters around them. *)

MessagePieces ==
    {<<"M", "e", "r", "g", "e">>, <<"r", "e", "v", "e", "r", "t">>,
     <<"c", "h", "e", "r", "r", "y">>, <<"P", "i", "c", "k">>, <<"d">>,
     <<"(", "d", ")">>, <<"(", ")">>, <<"!">>, <<":">>, <<" ">>, <<"\t">>, <<"-">>}

RECURSIVE Flatten(_)
Flatten(pieces) == IF pieces = <<>> THEN <<>> ELSE Head(pieces) \o Flatten(Tail(pieces))

Messages(maxPieces) ==
    {Flatten(ps) : ps \in UNION {[1..n -> MessagePieces] : n \in 0..maxPieces}}

InitMessages ==
    /\ pc = "input"
    /\ \E msg \in Messages(MaxPieces) : items = Push(EmptyMap, CommitSummary(HashOfRow(0), msg, 0, <<>>))
    /\ branchItems = <<>>
    /\ layout = NoLayout
    /\ labelMap = EmptyMap
    /\ laneByHash = EmptyMap
    /\ groups = <<>>
    /\ walk = NoWalk

\* buildFlowGroups({ commits, laneByHash, resolveBranchLabel }) on the one commit
ClassifyMessage ==
    /\ pc = "input"
    /\ groups' = buildFlowGroups(items, laneByHash, labelMap)
    /\ pc' = "done"
    /\ UNCHANGED <<items, branchItems, layout, labelMap, laneByHash, walk>>

NextMessages == ClassifyMessage

SpecMessages == InitMessages /\ [][NextMessages]_vars

----------------------------------------------------------------------------
(* The two ancestry walks, one loop iteration per step: the mainline walk  *)
(* of buildGraph and the walk of one branch in buildFlowBranchLabelMap     *)
(* (a local branch main that is not current). walk holds the locals of     *)
(* the loop; walk.seen is the set the loop guards itself with (mainline,   *)
(* seen) and walk.visits lists the hashes the loop body ran on, in order.  *)

WalkedBranch(tip) == BranchInfo(<<"main">>, FALSE, FALSE, tip)

\* a branch walk that goes on after a hash repeats (no !seen.has(cursor))
branchWalkContinuesUnguarded(its, w) ==
    /\ w.cursor # Undefined
    /\ Visible(its, w.cursor)
    /\ w.distance <= Length(its) + 8

\* a branch walk whose hop bound is 0
branchWalkContinuesOneHop(its, w) ==
    /\ w.cursor # Undefined
    /\ Visible(its, w.cursor)
    /\ w.cursor \notin w.seen
    /\ w.distance <= 0

\* while (cursor && rows.has(cursor) && !seen.has(cursor) && distance <= items.length + 8)
branchWalkContinues(its, w) ==
    /\ w.cursor # Undefined
    /\ Visible(its, w.cursor)
    /\ w.cursor \notin w.seen
    /\ w.distance <= Length(its) + 8

\* while (cursor && !mainline.has(cursor))
mainlineWalkContinues(w) ==
    /\ w.cursor # Undefined
    /\ w.cursor \notin w.seen

InitWalks ==
    /\ pc = "input"
    /\ items \in {BlankHistory(n) : n \in 0..MaxLabelCommits}
    /\ branchItems = <<>>
    /\ layout = NoLayout
    /\ labelMap = EmptyMap
    /\ laneByHash = EmptyMap
    /\ groups = <<>>
    /\ walk = NoWalk

SupplyWalkParent == SupplyParent(MaxLabelParentRefs)

\* tips a branch may point to: none, a hash outside the visible set, a visible hash
WalkTips(its) == {Null, External} \cup {its[r].hash : r \in Rows(its)}

\* if (items.length > 0) { let cursor = items[0].hash; ...
StartMainlineWalk ==
    /\ pc = "input"
    /\ walk' = [NoWalk EXCEPT !.kind = "mainline",
                              !.cursor = IF Length(items) > 0 THEN items[0].hash ELSE Undefined]
    /\ pc' = IF Length(items) > 0 THEN "walk" ELSE "done"
    /\ UNCHANGED <<items, branchItems, layout, labelMap, laneByHash, groups>>

\* const tip = branch.targetHash; if (!tip || !rows.has(tip)) continue; let cursor = tip
StartBranchWalk ==
    /\ pc = "input"
    /\ \E tip \in WalkTips(items) :
          /\ walk' = [NoWalk EXCEPT !.kind = "branch", !.tip = tip,
                                    !.cursor = IF tip = Null THEN Undefined ELSE tip]
          /\ pc' = IF tip = Null \/ ~Visible(items, tip) THEN "done" ELSE "walk"
    /\ UNCHANGED <<items, branchItems, layout, labelMap, laneByHash, groups>>

\* one test of the loop condition and, if it holds, one run of the loop body
WalkStep ==
    /\ pc = "walk"
    /\ LET continues == IF walk.kind = "mainline" THEN mainlineWalkContinues(walk)
                        ELSE branchWalkContinues(items, walk)
           next == FirstVisibleParent(items, commitByHash(items)[walk.cursor])
           branch == WalkedBranch(walk.tip)
           assigned ==
               IF /\ walk.kind = "branch"
                  /\ shouldAssign(walk.assignments, walk.cursor,
                                  branchPriority(branch), walk.distance)
               THEN Put(walk.assignments, walk.cursor,
                        [label |-> displayLabel(branch), priority |-> branchPriority(branch),
                         distance |-> walk.distance])
               ELSE walk.assignments
       IN  IF ~continues
           THEN pc' = "done" /\ UNCHANGED walk
           ELSE /\ walk' = [walk EXCEPT
                              !.seen = @ \cup {walk.cursor},
                              !.visits = Append(@, walk.cursor),
                              !.assignments = assigned,
                              !.cursor = IF next = Undefined THEN @ ELSE next,
                              !.distance = IF next = Undefined \/ walk.kind = "mainline"
                                           THEN @ ELSE @ + 1]
                /\ pc' = IF next = Undefined THEN "done" ELSE "walk"
    /\ UNCHANGED <<items, branchItems, layout, labelMap, laneByHash, groups>>

NextWalks == SupplyWalkParent \/ StartMainlineWalk \/ StartBranchWalk \/ WalkStep

\* a finished walk has done what the whole loop does
WalkMatchesWholeCall ==
    pc = "done" =>
        /\ walk.kind = "mainline" => walk.seen = Mainline(items)
        /\ walk.kind = "branch" =>
              walk.assignments = walkBranch(items, EmptyMap, WalkedBranch(walk.tip))

\* the loops run synchronously to their end: a started walk keeps stepping
SpecWalks == InitWalks /\ [][NextWalks]_vars /\ WF_vars(WalkStep)

----------------------------------------------------------------------------
(* Vocabulary of the claims about buildGraph *)

\* h is the hash of a visible commit
InView(its, h) == \E r \in Rows(its) : its[r].hash = h

\* the first parent of h that is present in the visible set, read off the input
FirstParentInView(its, h) ==
    LET rows == {r \in Rows(its) : its[r].hash = h}
        ps == its[SetMax(rows)].parents
        idx == {i \in 1..Len(ps) : \E r \in Rows(its) : its[r].hash = ps[i]}
    IN  IF idx = {} THEN Undefined ELSE ps[CHOOSE i \in idx : \A j \in idx : i <= j]

\* the hash reached from h after k first-parent hops (Undefined once the chain has ended)
RECURSIVE Ancestor(_, _, _)
Ancestor(its, h, k) ==
    IF k = 0 \/ h = Undefined THEN h ELSE Ancestor(its, FirstParentInView(its, h), k - 1)

\* row 0 and everything reached from it along first visible parents
MainlineChain(its) ==
    IF Length(its) = 0 THEN {}
    ELSE {Ancestor(its, its[0].hash, k) : k \in 0..Length(its)} \ {Undefined}

HasSelfParent(its) == \E r \in Rows(its) : its[r].hash \in Range(its[r].parents)
HasExternalParent(its) == \E r \in Rows(its) : External \in Range(its[r].parents)
HasNewerParent(its) ==
    \E r, q \in Rows(its) : q < r /\ its[q].hash \in Range(its[r].parents)

Edge(fr, tr, fl, tl) == [fromRow |-> fr, toRow |-> tr, fromLane |-> fl, toLane |-> tl]

----------------------------------------------------------------------------
(* Claims *)

\* C3: buildGraph returns exactly one lane per commit row: laneByRow is
\* defined on rows 0..commits.length-1 and nowhere else, and each lane lies
\* in 0..laneCount-1, also for empty, external, out-of-order,
\* self-referencing and cyclic parent data.
C3_OneLanePerRow ==
    pc = "done" =>
        /\ DOMAIN layout.laneByRow = 0..(Length(items) - 1)
        /\ \A r \in Rows(items) : layout.laneByRow[r] \in 0..(layout.laneCount - 1)

C3_Witness ==
    /\ pc = "done"
    /\ Length(items) = 3
    /\ HasSelfParent(items) /\ HasExternalParent(items) /\ HasNewerParent(items)
    /\ layout.laneCount = 3

\* C4: every commit of the mainline chain (row 0 and the commits reached from
\* it by following the first visible parent) has lane 0 in laneByRow.
C4_MainlineOnLaneZero ==
    pc = "done" =>
        \A r \in Rows(items) :
            items[r].hash \in MainlineChain(items) => layout.laneByRow[r] = 0

C4_Witness ==
    /\ pc = "done"
    /\ Cardinality(MainlineChain(items)) = 2
    /\ items[0].parents[1] = External
    /\ \E r \in Rows(items) : items[r].hash \notin MainlineChain(items)

\* C5: lane 0 is reserved for the mainline: a commit outside the mainline
\* chain never gets lane 0, whatever its parents are.
C5_LaneZeroReserved ==
    pc = "done" =>
        \A r \in Rows(items) :
            items[r].hash \notin MainlineChain(items) => layout.laneByRow[r] # 0

\* a commit off the mainline whose first visible parent is a mainline commit
\* that has no mainline child, so that the commit is its primary child
C5_Witness ==
    /\ pc = "done"
    /\ \E r \in Rows(items) :
          /\ items[r].hash \notin MainlineChain(items)
          /\ FirstParentInView(items, items[r].hash) = items[0].hash
          /\ layout.laneByRow[r] # 0

\* C6: every edge joins two rows of the input, runs from a row to a strictly
\* older row, and the hash at toRow is one of the parents of the commit at
\* fromRow.
C6_EdgesFollowParents ==
    pc = "done" =>
        \A i \in 1..Len(layout.edges) :
            LET e == layout.edges[i] IN
            /\ e.fromRow \in Rows(items) /\ e.toRow \in Rows(items)
            /\ e.toRow > e.fromRow
            /\ items[e.toRow].hash \in Range(items[e.fromRow].parents)

C6_Witness ==
    /\ pc = "done"
    /\ Len(layout.edges) = 1
    /\ HasSelfParent(items) /\ HasNewerParent(items)

\* C10: on the history C0(C1,C2), C1(C3), C2(C3), C3() the mainline is
\* {C0, C1, C3}, laneByRow is [0,0,1,0] and the edges include 0->1 (lanes
\* 0->0), 0->2 (0->1), 1->3 (0->0) and 2->3 (1->0).
C10_DiamondScenario ==
    (pc = "done" /\ items = ScenarioCommits) =>
        /\ Mainline(items) = {"C0", "C1", "C3"}
        /\ layout.laneByRow = [r \in 0..3 |-> IF r = 2 THEN 1 ELSE 0]
        /\ {Edge(0, 1, 0, 0), Edge(0, 2, 0, 1), Edge(1, 3, 0, 0), Edge(2, 3, 1, 0)}
              \subseteq Range(layout.edges)

C10_Witness == pc = "done" /\ items = ScenarioCommits /\ Len(layout.edges) = 4

\* the row of a visible hash
RowOf(its, h) == CHOOSE r \in Rows(its) : its[r].hash = h

\* a parent reference that is external, the commit itself or a newer commit
Malformed(its, r, p) == ~InView(its, p) \/ RowOf(its, p) <= r

\* positions in the edge list of the edges that leave row r
EdgesFrom(edges, r) == {i \in 1..Len(edges) : edges[i].fromRow = r}

\* the lane of row r is held by no older row and is not lane 0
FreshLane(laneByRow, r) ==
    /\ laneByRow[r] # 0
    /\ \A q \in DOMAIN laneByRow : q > r => laneByRow[q] < laneByRow[r]

\* C16: a parent that is external, the commit itself or at a newer row gives
\* no edge; a commit off the mainline without visible parent, or whose first
\* visible parent is not placed yet, gets a fresh lane; the layout is
\* returned in full.
C16_MalformedParentsAbsorbed ==
    pc = "done" =>
        /\ \A r \in Rows(items) :
              /\ \A k \in 1..Len(items[r].parents) :
                    LET p == items[r].parents[k] IN
                    Malformed(items, r, p) =>
                        \A i \in EdgesFrom(layout.edges, r) :
                            items[layout.edges[i].toRow].hash # p
              /\ Cardinality(EdgesFrom(layout.edges, r))
                    = Cardinality({k \in 1..Len(items[r].parents) :
                                      ~Malformed(items, r, items[r].parents[k])})
        /\ LET chain == MainlineChain(items) IN
           \A r \in Rows(items) :
              LET fp == FirstParentInView(items, items[r].hash) IN
              (/\ items[r].hash \notin chain
               /\ (fp = Undefined \/ RowOf(items, fp) <= r))
              => FreshLane(layout.laneByRow, r)
        /\ DOMAIN layout.laneByRow = Rows(items)
        /\ layout.laneCount >= 1
        /\ layout.height = 46 * Length(items)

\* a commit off the mainline names a newer commit as its first visible
\* parent while an older row already holds a lane; another parent is external
C16_Witness ==
    /\ pc = "done"
    /\ HasExternalParent(items)
    /\ \E r \in Rows(items) :
          /\ items[r].hash \notin MainlineChain(items)
          /\ FirstParentInView(items, items[r].hash) # Undefined
          /\ RowOf(items, FirstParentInView(items, items[r].hash)) < r
          /\ r + 1 \in Rows(items)
          /\ layout.edges = <<>>

\* the parent references <<row, position>> that are visible at an older row
EdgeRefs(its) ==
    {ref \in Rows(its) \X (1..MaxParents) :
        /\ ref[2] <= Len(its[ref[1]].parents)
        /\ ~Malformed(its, ref[1], its[ref[1]].parents[ref[2]])}

\* reference a comes before b: by row, then by position among the parents
RefBefore(a, b) == a[1] < b[1] \/ (a[1] = b[1] /\ a[2] < b[2])

\* C17: with unique hashes the edge list is, for each row r in ascending
\* order and each of its parents in order that is visible at a row pr > r,
\* the edge {r, pr, laneByRow[r], laneByRow[pr]}, and nothing else; a merge
\* commit with k visible older parents has k edges leaving its row.
C17_EdgeListExact ==
    pc = "done" =>
        /\ Len(layout.edges) = Cardinality(EdgeRefs(items))
        /\ \A ref \in EdgeRefs(items) :
              LET i == 1 + Cardinality({a \in EdgeRefs(items) : RefBefore(a, ref)})
                  pr == RowOf(items, items[ref[1]].parents[ref[2]])
              IN  layout.edges[i] = [fromRow  |-> ref[1],
                                     toRow    |-> pr,
                                     fromLane |-> layout.laneByRow[ref[1]],
                                     toLane   |-> layout.laneByRow[pr]]

\* a merge commit with two visible older parents on different lanes, and an
\* edge of another row after its two
C17_Witness ==
    /\ pc = "done"
    /\ Len(layout.edges) >= 3
    /\ layout.edges[1].fromRow = layout.edges[2].fromRow
    /\ layout.edges[1].toLane # layout.edges[2].toLane
    /\ layout.edges[3].fromRow > layout.edges[1].fromRow

\* rows of the visible commits that name p among their parents
ChildRows(its, p) == {r \in Rows(its) : p \in Range(its[r].parents)}

\* the primary child of p: its nearest-to-head child on the mainline, else
\* its nearest-to-head child whose own first parent is p, else its
\* nearest-to-head child
StatedPrimaryChild(its, chain, p) ==
    LET children == ChildRows(its, p)
        onMainline == {r \in children : its[r].hash \in chain}
        firstParentIsP == {r \in children : its[r].parents[1] = p}
    IN  its[SetMin(IF onMainline # {} THEN onMainline
                   ELSE IF firstParentIsP # {} THEN firstParentIsP
                   ELSE children)].hash

\* row r takes the lane of its first visible parent: the parent is placed
\* before r (it lies at an older row), r is its primary child and its lane
\* is not 0; chain is the mainline chain of the history
InheritsLane(its, chain, laneByRow, r) ==
    LET fp == FirstParentInView(its, its[r].hash) IN
    /\ fp # Undefined
    /\ RowOf(its, fp) > r
    /\ laneByRow[RowOf(its, fp)] # 0
    /\ StatedPrimaryChild(its, chain, fp) = its[r].hash

\* C18: placing rows from oldest to newest, a commit off the mainline takes
\* the lane of its first visible parent exactly when it is that parent's
\* primary child and the lane the parent holds by then is not 0, and gets a
\* fresh lane in every other case; the primary child is the nearest-to-head
\* child on the mainline, else the nearest-to-head child whose own first
\* parent is the parent, else the nearest-to-head child.
C18_InheritOrFreshLane ==
    pc = "done" =>
        LET chain == MainlineChain(items) IN
        \A r \in Rows(items) :
            items[r].hash \notin chain =>
                LET fp == FirstParentInView(items, items[r].hash)
                    inherits == InheritsLane(items, chain, layout.laneByRow, r)
                IN  /\ IF inherits
                       THEN layout.laneByRow[r] = layout.laneByRow[RowOf(items, fp)]
                       ELSE FreshLane(layout.laneByRow, r)
                    /\ (fp # Undefined /\ RowOf(items, fp) > r) =>
                          ((layout.laneByRow[r] = layout.laneByRow[RowOf(items, fp)])
                              <=> inherits)

\* two children off the mainline have the same first visible parent: the
\* one nearer to the head names it second, after an external hash, and gets
\* a fresh lane; the other names it first and takes its lane
C18_Witness ==
    /\ pc = "done"
    /\ \E c1, c2 \in Rows(items) :
          LET p == FirstParentInView(items, items[c1].hash) IN
          /\ c1 < c2
          /\ p # Undefined
          /\ FirstParentInView(items, items[c2].hash) = p
          /\ RowOf(items, p) > c2
          /\ items[c1].parents[1] = External
          /\ items[c1].hash \notin MainlineChain(items)
          /\ items[c2].hash \notin MainlineChain(items)
          /\ layout.laneByRow[c2] = layout.laneByRow[RowOf(items, p)]
          /\ layout.laneByRow[c1] > layout.laneByRow[c2]

\* the row reached from row r after k steps, each from a commit off the
\* mainline that inherits to the row of its first visible parent (-1 once a
\* commit does not inherit)
RECURSIVE LaneSource(_, _, _, _, _)
LaneSource(its, chain, laneByRow, r, k) ==
    IF k = 0 \/ r = -1 THEN r
    ELSE IF its[r].hash \notin chain /\ InheritsLane(its, chain, laneByRow, r)
         THEN LaneSource(its, chain, laneByRow,
                         RowOf(its, FirstParentInView(its, its[r].hash)), k - 1)
         ELSE -1

\* C19: lanes other than 0 are never reused: a fresh lane is one more than
\* the lane allocated before it, hence greater than every lane of an older
\* row, and two commits share a non-zero lane only if the newer one
\* inherited it from the older one along first-visible-parent / primary-child
\* links that all lie on that lane.
C19_LanesNeverReused ==
    pc = "done" =>
        LET chain == MainlineChain(items) IN
        /\ \A r \in Rows(items) :
              (/\ items[r].hash \notin chain
               /\ ~InheritsLane(items, chain, layout.laneByRow, r))
              => layout.laneByRow[r] =
                    1 + SetMax({0} \cup {layout.laneByRow[q] :
                                            q \in {x \in Rows(items) : x > r}})
        /\ \A r1, r2 \in Rows(items) :
              (r1 < r2 /\ layout.laneByRow[r1] = layout.laneByRow[r2]
                       /\ layout.laneByRow[r1] # 0)
              => \E k \in 1..Length(items) :
                    /\ LaneSource(items, chain, layout.laneByRow, r1, k) = r2
                    /\ \A j \in 0..k :
                          layout.laneByRow[LaneSource(items, chain, layout.laneByRow, r1, j)]
                             = layout.laneByRow[r1]

\* a commit inherited lane 1 from its first visible parent and another
\* commit holds lane 2
C19_Witness ==
    /\ pc = "done"
    /\ \E r \in Rows(items) :
          /\ LaneSource(items, MainlineChain(items), layout.laneByRow, r, 1) # -1
          /\ layout.laneByRow[r] = 1
    /\ \E r \in Rows(items) : layout.laneByRow[r] = 2

----------------------------------------------------------------------------
(* Vocabulary of the claims about buildFlowBranchLabelMap *)

\* the walk of branch b visits h: h lies on the first-visible-parent chain of b's tip
Reaches(its, b, h) ==
    /\ b.targetHash # Null
    /\ InView(its, b.targetHash)
    /\ \E k \in 0..(Length(its) - 1) : Ancestor(its, b.targetHash, k) = h

\* hops from b's tip to the first visit of h
HopDistance(its, b, h) ==
    CHOOSE k \in 0..(Length(its) - 1) :
        /\ Ancestor(its, b.targetHash, k) = h
        /\ \A j \in 0..(k - 1) : Ancestor(its, b.targetHash, j) # h

ClaimedPriority(b) == IF b.isCurrent THEN 0 ELSE IF b.isRemote THEN 2 ELSE 1

\* a beats b at h: smaller priority, then smaller hop distance, then smaller name
Beats(its, a, b, h) ==
    \/ ClaimedPriority(a) < ClaimedPriority(b)
    \/ /\ ClaimedPriority(a) = ClaimedPriority(b)
       /\ HopDistance(its, a, h) < HopDistance(its, b, h)
    \/ /\ ClaimedPriority(a) = ClaimedPriority(b)
       /\ HopDistance(its, a, h) = HopDistance(its, b, h)
       /\ localeCompare(a.name, b.name) < 0

ScenarioBranches ==
    <<BranchInfo(<<"main">>, TRUE, FALSE, "C0"), BranchInfo(<<"feature">>, FALSE, FALSE, "C2")>>

\* C8: when exactly one branch is current, it is local and its tip is a
\* visible commit, the tip is labelled with that branch's own name, whatever
\* other branches are present.
C8_CurrentTipKeepsOwnName ==
    pc = "done" =>
        \A i \in 1..Len(branchItems) :
            (/\ branchItems[i].isCurrent
             /\ ~branchItems[i].isRemote
             /\ \A j \in 1..Len(branchItems) : branchItems[j].isCurrent => j = i
             /\ InView(items, branchItems[i].targetHash))
            => /\ branchItems[i].targetHash \in DOMAIN labelMap
               /\ labelMap[branchItems[i].targetHash] = branchItems[i].name

\* the current local branch is supplied after a local branch with a smaller
\* name that points to the same visible commit
C8_Witness ==
    /\ pc = "done"
    /\ Len(branchItems) = 2
    /\ branchItems[2].isCurrent /\ ~branchItems[2].isRemote /\ ~branchItems[1].isRemote
    /\ localeCompare(branchItems[1].name, branchItems[2].name) < 0
    /\ branchItems[1].targetHash = branchItems[2].targetHash
    /\ InView(items, branchItems[2].targetHash)

\* C9: every visible commit reached by some branch walk carries the display
\* label of the branch that is smallest in (priority, hop distance, name);
\* in the scenario main (current) at C0 and feature at C2 over the diamond
\* history, C0, C1 and C3 are labelled main and C2 feature.
C9_BestBranchLabels ==
    pc = "done" =>
        /\ \A r \in Rows(items) :
              LET h == items[r].hash
                  reaching == {i \in 1..Len(branchItems) : Reaches(items, branchItems[i], h)}
              IN  reaching # {} =>
                    /\ h \in DOMAIN labelMap
                    /\ \E i \in reaching :
                          /\ \A j \in reaching \ {i} :
                                Beats(items, branchItems[i], branchItems[j], h)
                          /\ labelMap[h] = displayLabel(branchItems[i])
        /\ (items = ScenarioCommits /\ branchItems = ScenarioBranches) =>
              labelMap = [h \in {"C0", "C1", "C2", "C3"} |->
                            IF h = "C2" THEN <<"feature">> ELSE <<"main">>]

\* two remote branches reach a commit at the same distance, the one with the
\* larger name first in the list
C9_Witness ==
    /\ pc = "done"
    /\ Len(branchItems) = 2
    /\ ~branchItems[1].isCurrent /\ ~branchItems[2].isCurrent
    /\ branchItems[1].isRemote /\ branchItems[2].isRemote
    /\ localeCompare(branchItems[1].name, branchItems[2].name) > 0
    /\ displayLabel(branchItems[1]) # displayLabel(branchItems[2])
    /\ \E r \in Rows(items) :
          /\ Reaches(items, branchItems[1], items[r].hash)
          /\ Reaches(items, branchItems[2], items[r].hash)
          /\ HopDistance(items, branchItems[1], items[r].hash) = 1
          /\ HopDistance(items, branchItems[2], items[r].hash) = 1

----------------------------------------------------------------------------
(* Claims about buildFlowGroups *)

RECURSIVE ConcatCommits(_, _)
ConcatCommits(gs, k) ==
    IF k > Len(gs) THEN <<>> ELSE gs[k].commits \o ConcatCommits(gs, k + 1)

\* C1: the commits of the groups, concatenated in group order, are exactly
\* the input sequence: nothing lost, duplicated or reordered, each group a
\* contiguous run of the input.
C1_GroupsPartitionInput == ConcatCommits(groups, 1) = ToSeq(items)

\* a commit was appended to the first group and a change of type opened the second
C1_Witness ==
    /\ Len(groups) = 2
    /\ Len(groups[1].commits) >= 2 /\ Len(groups[2].commits) >= 1
    /\ groups[1].typeLabel # groups[2].typeLabel

\* C2: every group holds at least 1 and at most 8 commits, and an empty
\* input gives no group.
C2_GroupSizeWithinLimit ==
    /\ \A g \in 1..Len(groups) :
          /\ Len(groups[g].commits) >= 1
          /\ Len(groups[g].commits) <= FLOW_MAX_GROUP_SIZE
    /\ Length(items) = 0 => groups = <<>>

\* a ninth commit with the label, type and date of a full group opens a new group
C2_Witness ==
    /\ Len(groups) = 2
    /\ Len(groups[1].commits) = FLOW_MAX_GROUP_SIZE
    /\ groups[2].branchLabel = groups[1].branchLabel
    /\ groups[2].typeLabel = groups[1].typeLabel
    /\ groups[2].endedAt = groups[1].endedAt

\* row of the first commit of group g
RECURSIVE GroupStart(_, _)
GroupStart(gs, g) ==
    IF g = 1 THEN 0 ELSE GroupStart(gs, g - 1) + Len(gs[g - 1].commits)

\* the group that holds the commit of row r
GroupOfRow(gs, r) ==
    CHOOSE g \in 1..Len(gs) :
        /\ GroupStart(gs, g) <= r
        /\ r < GroupStart(gs, g) + Len(gs[g].commits)

SixHours == 6 * 60 * 60 * 1000

\* type and kind of relation of the messages of the grouping inputs, worked
\* out once, and of any other message
TypeOfFlowMessage == [m \in FlowMessages |-> normalizedType(m)]
KindOfFlowMessage == [m \in FlowMessages |-> relationOf(m).kind]
TypeOf(message) ==
    IF message \in FlowMessages THEN TypeOfFlowMessage[message] ELSE normalizedType(message)

JoinConditions(a, b, sizeOfGroup) ==
    /\ sizeOfGroup < 8
    /\ Abs(a.date - b.date) <= SixHours
    /\ resolveBranchLabel(labelMap, a) = resolveBranchLabel(labelMap, b)
    /\ TypeOf(a.message) = TypeOf(b.message)

\* C11: consecutive commits share a group exactly when they have the same
\* branch label, the same type label, the group of the first has fewer than
\* 8 commits once it holds it, and their dates differ by at most 6 hours;
\* two feat commits on one branch 10 minutes apart form one group, 8 hours
\* apart two.
C11_JoinIffAllFour ==
    /\ LET groupOf == [r \in Rows(items) |-> GroupOfRow(groups, r)] IN
       \* the third argument: commits in the group of row r once it holds that commit
       \A r \in 0..(Length(items) - 2) :
          (groupOf[r] = groupOf[r + 1])
             <=> JoinConditions(items[r], items[r + 1],
                                r - GroupStart(groups, groupOf[r]) + 1)
    /\ \A gap \in {TenMinutes, EightHours} :
          (/\ Length(items) = 2
           /\ items[0].message = FeatMessage /\ items[1].message = FeatMessage
           /\ resolveBranchLabel(labelMap, items[0]) = resolveBranchLabel(labelMap, items[1])
           /\ items[0].date = 0 /\ items[1].date = gap)
          => Len(groups) = (IF gap = TenMinutes THEN 1 ELSE 2)

\* three commits alike but for their dates: the first two lie more than six
\* hours apart and split, the last two exactly six hours apart and join
C11_Witness ==
    /\ Length(items) = 3
    /\ \A r \in 1..2 : /\ items[r].message = items[0].message
                       /\ resolveBranchLabel(labelMap, items[r]) = resolveBranchLabel(labelMap, items[0])
    /\ Abs(items[0].date - items[1].date) = SixHours + 1
    /\ Abs(items[1].date - items[2].date) = SixHours
    /\ Len(groups) = 2
    /\ Len(groups[2].commits) = 2

\* kind of relation a commit message yields, "none" without one
KindOf(message) ==
    IF message \in FlowMessages THEN KindOfFlowMessage[message] ELSE relationOf(message).kind

\* C12: the relations of a group hold one entry per kind that occurs among
\* its commits, in order of first occurrence, each counting the commits of
\* the group whose message yields that kind; one merge commit gives
\* {merge, Merge, 1} and a second one in the group raises the count to 2.
C12_RelationsCountedPerKind ==
    \A g \in 1..Len(groups) :
        LET commits == groups[g].commits
            relations == groups[g].relations
            kinds == [k \in 1..Len(commits) |-> KindOf(commits[k].message)]
            \* position in the group of the first commit that yields the kind
            first == [i \in 1..Len(relations) |->
                         SetMin({k \in 1..Len(commits) : kinds[k] = relations[i].kind})]
        IN  /\ \A i, j \in 1..Len(relations) :
                  i # j => relations[i].kind # relations[j].kind
            /\ {relations[i].kind : i \in 1..Len(relations)}
                  = {kinds[k] : k \in 1..Len(commits)} \ {"none"}
            /\ \A i \in 1..Len(relations) :
                  /\ relations[i].kind \in {"merge", "revert", "cherry-pick"}
                  /\ relations[i].count =
                        Cardinality({k \in 1..Len(commits) : kinds[k] = relations[i].kind})
            /\ \A i, j \in 1..Len(relations) : i < j => first[i] < first[j]
            /\ (\A k \in 1..Len(commits) : commits[k].message = MergeMessage)
                  => relations = <<[kind |-> "merge", label |-> "Merge",
                                    count |-> Len(commits)]>>

\* a group of two merge commits carries one merge entry with count 2
C12_Witness ==
    \E g \in 1..Len(groups) :
        /\ Len(groups[g].commits) = 2
        /\ \A k \in 1..2 : groups[g].commits[k].message = MergeMessage
        /\ Len(groups[g].relations) = 1
        /\ groups[g].relations[1].count = 2

\* the name of a remote-tracking branch <remote>/<name> without its remote
RemotePrefixRemoved(name) == IF Len(name) >= 2 THEN Tail(name) ELSE name

\* the display label of a branch as stated
StatedLabel(branch) ==
    IF branch.isRemote THEN RemotePrefixRemoved(branch.name) ELSE branch.name

\* C14: a remote branch is labelled with its name without the remote prefix,
\* for any remote name, and a local branch with its name unchanged: every
\* label of the map is such a label of one of the branches.
C14_RemotePrefixStripped ==
    pc = "done" =>
        \A h \in DOMAIN labelMap :
            \E i \in 1..Len(branchItems) :
                /\ Reaches(items, branchItems[i], h)
                /\ labelMap[h] = StatedLabel(branchItems[i])

\* the visible commits some branch walk visits
WalkedCommits(its, brs) ==
    {its[r].hash : r \in {q \in Rows(its) :
                            \E i \in 1..Len(brs) : Reaches(its, brs[i], its[q].hash)}}

\* C15: the map has an entry for exactly the visible commits visited by the
\* walk of some branch whose tip is non-null and visible; unreached commits
\* have none, no key lies outside the visible set, and branches with a null
\* or non-visible tip contribute nothing.
C15_EntriesAreWalkedCommits ==
    pc = "done" =>
        /\ DOMAIN labelMap = WalkedCommits(items, branchItems)
        /\ \A h \in DOMAIN labelMap : InView(items, h)
        /\ (\A i \in 1..Len(branchItems) :
               branchItems[i].targetHash = Null \/ ~InView(items, branchItems[i].targetHash))
              => labelMap = EmptyMap

\* one branch has no tip, the other labels two visible commits past an
\* external first parent and leaves the third without entry
C15_Witness ==
    /\ pc = "done"
    /\ Len(branchItems) = 2
    /\ branchItems[1].targetHash = Null
    /\ Cardinality(DOMAIN labelMap) = 2
    /\ Length(items) = 3
    /\ \E r \in Rows(items) : Len(items[r].parents) = 2 /\ items[r].parents[1] = External

----------------------------------------------------------------------------
(* Claims about the type label of a message *)

LowerOf(text) == [i \in 1..Len(text) |-> toLowerCase(text[i])]

\* the text goes on at position pos with the given lower-case word, in any letter case
SpelledAt(text, pos, word) ==
    /\ pos >= 1
    /\ pos + Len(word) - 1 <= Len(text)
    /\ LowerOf(SubSeq(text, pos, pos + Len(word) - 1)) = word

\* the text from position pos on begins with the given characters
GoesOnWith(text, pos, chars) ==
    /\ pos + Len(chars) - 1 <= Len(text)
    /\ SubSeq(text, pos, pos + Len(chars) - 1) = chars

\* a parenthesised scope fills positions from..to: non-empty, without ")"
ScopeAt(text, from, to) ==
    /\ to <= Len(text)
    /\ to >= from + 2
    /\ text[from] = "(" /\ text[to] = ")"
    /\ \A i \in (from + 1)..(to - 1) : text[i] # ")"

\* the first n characters are a word of letters followed by an optional
\* scope, an optional "!" and a colon
ConventionalHead(text, n) ==
    /\ n >= 1 /\ n <= Len(text)
    /\ \A i \in 1..n : IsLetter(text[i])
    /\ \/ GoesOnWith(text, n + 1, <<":">>)
       \/ GoesOnWith(text, n + 1, <<"!", ":">>)
       \/ \E to \in (n + 1)..Len(text) :
             /\ ScopeAt(text, n + 1, to)
             /\ \/ GoesOnWith(text, to + 1, <<":">>)
                \/ GoesOnWith(text, to + 1, <<"!", ":">>)

HasConventionalHead(text) == \E n \in 1..Len(text) : ConventionalHead(text, n)
HeadWord(text) == SubSeq(text, 1, CHOOSE n \in 1..Len(text) : ConventionalHead(text, n))

\* the text begins with the letters of the word, in any letter case
BeginsWith(text, word) == SpelledAt(text, 1, word)

\* the text begins with the word, in any letter case, and the word ends there
BeginsWithWholeWord(text, word) ==
    /\ SpelledAt(text, 1, word)
    /\ Len(text) > Len(word) => ~IsWordChar(text[Len(word) + 1])

\* cherry and pick, in any letter case, with one of the separators or nothing between
CherryPickMarker(text, separators) ==
    \E pos \in 1..Len(text) :
        /\ SpelledAt(text, pos, <<"c", "h", "e", "r", "r", "y">>)
        /\ \/ SpelledAt(text, pos + 6, <<"p", "i", "c", "k">>)
           \/ /\ pos + 6 <= Len(text)
              /\ text[pos + 6] \in separators
              /\ SpelledAt(text, pos + 7, <<"p", "i", "c", "k">>)

\* the precedence as stated: a message that starts with Merge or Revert
\* takes that type, the marker is written with a hyphen, a space or nothing
StatedType(text) ==
    IF HasConventionalHead(text) THEN LowerOf(HeadWord(text))
    ELSE IF BeginsWith(text, <<"m", "e", "r", "g", "e">>) THEN <<"m", "e", "r", "g", "e">>
    ELSE IF BeginsWith(text, <<"r", "e", "v", "e", "r", "t">>) THEN <<"r", "e", "v", "e", "r", "t">>
    ELSE IF CherryPickMarker(text, {"-", " "})
         THEN <<"c", "h", "e", "r", "r", "y", "-", "p", "i", "c", "k">>
    ELSE <<"c", "o", "m", "m", "i", "t">>

\* the precedence with whole words and any one whitespace character
WholeWordType(text) ==
    IF HasConventionalHead(text) THEN LowerOf(HeadWord(text))
    ELSE IF BeginsWithWholeWord(text, <<"m", "e", "r", "g", "e">>) THEN <<"m", "e", "r", "g", "e">>
    ELSE IF BeginsWithWholeWord(text, <<"r", "e", "v", "e", "r", "t">>)
         THEN <<"r", "e", "v", "e", "r", "t">>
    ELSE IF CherryPickMarker(text, {"-", " ", "\t", "\n"})
         THEN <<"c", "h", "e", "r", "r", "y", "-", "p", "i", "c", "k">>
    ELSE <<"c", "o", "m", "m", "i", "t">>

\* C13 as stated: the type label follows the precedence conventional token,
\* then "merge" for a message starting with Merge, "revert" for one starting
\* with Revert, "cherry-pick" for a marker written with a hyphen, a space or
\* nothing, and "commit" otherwise.
C13_TypeByStatedPrecedence ==
    pc = "done" => groups[1].typeLabel = StatedType(items[0].message)

\* C13: the type label is the lower-cased conventional token (letters, an
\* optional non-empty scope, an optional "!", a colon); else "merge" or
\* "revert" when the message starts with that word in any letter case and
\* the word ends there; else "cherry-pick" for cherry and pick in any letter
\* case with a hyphen, one whitespace character or nothing between them;
\* else "commit".
C13_TypeByWholeWordPrecedence ==
    pc = "done" => groups[1].typeLabel = WholeWordType(items[0].message)

\* a message that starts with the word Merge and carries a cherry-pick
\* marker is typed merge
C13_Witness ==
    /\ pc = "done"
    /\ BeginsWithWholeWord(items[0].message, <<"m", "e", "r", "g", "e">>)
    /\ CherryPickMarker(items[0].message, {"-", " "})
    /\ ~HasConventionalHead(items[0].message)
    /\ groups[1].typeLabel = <<"m", "e", "r", "g", "e">>

----------------------------------------------------------------------------
(* Claims about the ancestry walks *)

DistinctVisibleHashes(its) == {its[r].hash : r \in Rows(its)}

\* the loop body ran at most once on each hash, and only on visible hashes
VisitsEachHashOnce ==
    /\ \A i, j \in 1..Len(walk.visits) : i # j => walk.visits[i] # walk.visits[j]
    /\ Range(walk.visits) \subseteq DistinctVisibleHashes(items)
    /\ Len(walk.visits) <= Cardinality(DistinctVisibleHashes(items))

\* C20: the mainline walk and a branch walk terminate on every finite input,
\* self-references and cycles among the parents included: a walk stops at
\* the first repeated hash and so runs at most once on each distinct visible
\* hash.
C20_WalksTerminate ==
    /\ [](VisitsEachHashOnce)
    /\ (pc = "walk") ~> (pc = "done")

\* a branch walk went round a cycle of two commits and stopped on reaching
\* its tip again
C20_Witness ==
    /\ pc = "done"
    /\ walk.kind = "branch"
    /\ Len(walk.visits) = 2
    /\ walk.cursor = walk.tip
    /\ walk.cursor \in walk.seen

----------------------------------------------------------------------------
(* Claims about the dates of a group *)

DatesOf(g) == {g.commits[k].date : k \in 1..Len(g.commits)}

\* C21: for every group and every commit in it, endedAt <= commit.date <=
\* startedAt, whether or not the dates of the input are sorted.
C21_DatesBoundGroup ==
    \A g \in 1..Len(groups) :
        \A d \in DatesOf(groups[g]) :
            groups[g].endedAt <= d /\ d <= groups[g].startedAt

\* along the input the dates never rise
NonIncreasingDates(commits) ==
    \A k \in 1..(Len(commits) - 1) : commits[k].date >= commits[k + 1].date

\* C22: endedAt is the date of the last commit appended to the group and
\* startedAt the maximum date over its commits; when the dates are
\* non-increasing along the input, startedAt is the date of the first commit
\* of the group.
C22_EndIsLastStartIsMax ==
    \A g \in 1..Len(groups) :
        LET commits == groups[g].commits IN
        /\ groups[g].endedAt = commits[Len(commits)].date
        /\ groups[g].startedAt = SetMax(DatesOf(groups[g]))
        /\ NonIncreasingDates(ToSeq(items)) => groups[g].startedAt = commits[1].date

\* a group whose second commit is dated after its first: startedAt moved to
\* the later date and endedAt with it
C22_Witness ==
    \E g \in 1..Len(groups) :
        /\ Len(groups[g].commits) = 2
        /\ groups[g].commits[1].date < groups[g].commits[2].date
        /\ groups[g].startedAt = groups[g].commits[2].date
        /\ groups[g].endedAt = groups[g].commits[2].date

\* difference between the largest and the smallest date of a group
DateSpan(g) == SetMax(DatesOf(g)) - SetMin(DatesOf(g))

\* C23 as stated: all commits of a group lie within one window, the largest
\* and the smallest date of a group differ by at most 6 hours.
C23_GroupWithinOneWindow ==
    \A g \in 1..Len(groups) : DateSpan(groups[g]) <= FLOW_WINDOW_MS

\* C23: the window holds between neighbours: the dates of two consecutive
\* commits of a group differ by at most 6 hours, so the dates of a group of
\* n commits span at most (n - 1) * 6 hours.
C23_NeighboursWithinWindow ==
    \A g \in 1..Len(groups) :
        LET commits == groups[g].commits IN
        /\ \A k \in 1..(Len(commits) - 1) :
              Abs(commits[k].date - commits[k + 1].date) <= FLOW_WINDOW_MS
        /\ DateSpan(groups[g]) <= (Len(commits) - 1) * FLOW_WINDOW_MS

\* a group of three commits whose dates drift over more than one window
C23_Witness ==
    \E g \in 1..Len(groups) :
        /\ Len(groups[g].commits) = 3
        /\ DateSpan(groups[g]) > FLOW_WINDOW_MS

----------------------------------------------------------------------------
(* Claims about the geometry of a layout *)

\* C24: for every input the width returned by buildGraph is at most
\* MAX_GRAPH_WIDTH = 196: laneStep, never above 14, is compressed as the lane
\* count grows so that 2*8 + (laneCount-1)*laneStep + 14 stays within it.
C24_WidthWithinMaximum ==
    pc = "done" =>
        /\ layout.laneStep <= LANE_WIDTH
        /\ layout.width = LANE_PADDING * 2 + (layout.laneCount - 1) * layout.laneStep + LANE_WIDTH
        /\ layout.width <= MAX_GRAPH_WIDTH

----------------------------------------------------------------------------
(* Claims about the identity of a group *)

\* C25: the id of a group is the hash of its first commit and its lane the
\* laneByHash entry of that commit, 0 without an entry; its branchLabel and
\* typeLabel are those of every commit of the group; with unique commit
\* hashes the ids of the groups are pairwise distinct.
C25_GroupSeededByFirstCommit ==
    /\ \A g \in 1..Len(groups) :
          LET commits == groups[g].commits
              first == commits[1]
          IN  /\ groups[g].id = first.hash
              /\ groups[g].lane = (IF first.hash \in DOMAIN laneByHash
                                   THEN laneByHash[first.hash] ELSE 0)
              /\ \A k \in 1..Len(commits) :
                    /\ groups[g].branchLabel = resolveBranchLabel(labelMap, commits[k])
                    /\ groups[g].typeLabel = TypeOf(commits[k].message)
    /\ \A g, h \in 1..Len(groups) : g # h => groups[g].id # groups[h].id

\* two groups: the first seeded by a commit without lane entry, the second
\* by a commit of lane 1 and joined by the commit of lane 2
C25_Witness ==
    /\ Len(groups) = 2
    /\ groups[1].id \notin DOMAIN laneByHash /\ groups[1].lane = 0
    /\ groups[2].lane = 1
    /\ Len(groups[2].commits) = 2
    /\ laneByHash[groups[2].commits[2].hash] = 2

----------------------------------------------------------------------------
(* Claims about what a call changes *)

\* C26: the grouping loop only appends to or updates the last group of its
\* list: every step keeps the groups before the last as they are, adds at
\* most one group, and once it adds one the group that was last is never
\* changed again; and the builders leave their inputs as they are: the
\* commit list, the lane map and the caller's branch list keep content and
\* order.
C26_OnlyLastGroupTouched ==
    [][/\ Len(groups') \in {Len(groups), Len(groups) + 1}
       /\ \A g \in 1..(Len(groups) - 1) : groups'[g] = groups[g]
       /\ (Len(groups') = Len(groups) + 1 /\ groups # <<>>)
             => groups'[Len(groups)] = groups[Len(groups)]
       /\ pc' # "input" => (items' = items /\ branchItems' = branchItems)
       /\ pc = "group" => laneByHash' = laneByHash]_vars

\* the loop is through three merge commits in two groups, the first counting
\* two merges; the caller's branch list is not in sorted order
C26_Witness ==
    /\ pc = "group"
    /\ Len(groups) = 2
    /\ Len(groups[1].commits) = 2
    /\ groups[1].relations = <<[kind |-> "merge", label |-> "Merge", count |-> 2]>>
    /\ Len(branchItems) = 2
    /\ branchItems # sortedBranches(branchItems)

----------------------------------------------------------------------------
(* Claims about the order of the branches *)

\* the lists that hold the branches of brs once each, in any order
Reorderings(brs) ==
    LET n == Len(brs) IN
    {[i \in 1..n |-> brs[f[i]]] :
        f \in {g \in [1..n -> 1..n] : \A i, j \in 1..n : i # j => g[i] # g[j]}}

DistinctNames(brs) ==
    \A i, j \in 1..Len(brs) : i # j => brs[i].name # brs[j].name

----------------------------------------------------------------------------
(* Claims about the lane count *)

\* C28: for a non-empty input the lanes of laneByRow are exactly
\* 0..laneCount-1, without gap: laneCount = 1 + max(laneByRow) and every
\* lane below laneCount is held by some row; for an empty input laneCount is
\* 1.  So laneCount >= 1, width > 0 and height = 46 * commits.length.
C28_LanesFillCount ==
    pc = "done" =>
        LET used == {layout.laneByRow[r] : r \in Rows(items)} IN
        /\ Length(items) > 0 =>
              /\ used = 0..(layout.laneCount - 1)
              /\ layout.laneCount = 1 + SetMax(used)
        /\ Length(items) = 0 => layout.laneCount = 1
        /\ layout.laneCount >= 1
        /\ layout.width > 0
        /\ layout.height = 46 * Length(items)

\* four rows on the lanes 0, 1 and 2, one side lane shared by inheritance
C28_Witness ==
    /\ pc = "done"
    /\ Length(items) = 4
    /\ layout.laneCount = 3
    /\ \E r1, r2 \in Rows(items) :
          r1 # r2 /\ layout.laneByRow[r1] = layout.laneByRow[r2] /\ layout.laneByRow[r1] # 0

----------------------------------------------------------------------------
(* Claims about the relations of a typed group *)

RelationTypes == {MergeType, RevertType, CherryPickType}

\* the kind of relation named like a type label
KindOfType(typeLabel) ==
    IF typeLabel = MergeType THEN "merge"
    ELSE IF typeLabel = RevertType THEN "revert"
    ELSE "cherry-pick"

\* C29: a group never carries more than one relation entry: a group typed
\* merge, revert or cherry-pick carries exactly one entry, of that kind,
\* counting every commit of the group; a group of any other type carries no
\* entry or a single cherry-pick entry.
C29_OneRelationPerGroup ==
    \A g \in 1..Len(groups) :
        LET relations == groups[g].relations IN
        /\ Len(relations) <= 1
        /\ IF groups[g].typeLabel \in RelationTypes
           THEN /\ Len(relations) = 1
                /\ relations[1].kind = KindOfType(groups[g].typeLabel)
                /\ relations[1].count = Len(groups[g].commits)
           ELSE \A i \in 1..Len(relations) :
                    /\ relations[i].kind = "cherry-pick"
                    /\ relations[i].count <= Len(groups[g].commits)

\* a feat group of two commits, one of them a cherry-pick, next to a merge
\* group of one commit
C29_Witness ==
    /\ Len(groups) = 2
    /\ Len(groups[1].commits) = 2
    /\ groups[1].typeLabel \notin RelationTypes
    /\ groups[1].relations = <<[kind |-> "cherry-pick", label |-> "Cherry-pick", count |-> 1]>>
    /\ groups[2].typeLabel = MergeType
    /\ groups[2].relations = <<[kind |-> "merge", label |-> "Merge", count |-> 1]>>

----------------------------------------------------------------------------
(* Claims about the hop bound of the branch walk *)

\* the first visible parent of the commit a walk visited last
NextOfLastVisit(its, w) ==
    FirstVisibleParent(its, commitByHash(its)[w.visits[Len(w.visits)]])

\* a walk ends because the commit it visited last has no visible parent or
\* because the next hash was visited before, never on the hop bound
EndsOnParentsOrRepeat ==
    /\ walk.distance <= Length(items) + 8
    /\ (pc = "walk" /\ ~branchWalkContinues(items, walk)) => walk.cursor \in walk.seen
    /\ (pc = "done" /\ walk.visits # <<>>) =>
          \/ NextOfLastVisit(items, walk) = Undefined
          \/ NextOfLastVisit(items, walk) \in walk.seen

\* C30 as stated: the hop bound commits.length + 8 never cuts a branch walk
\* short, every walk ending on a commit without visible parent or on a hash
\* visited before, so the hop distance never exceeds the number of distinct
\* visible hashes minus 1.
C30_HopDistanceBelowHashCount ==
    (walk.kind = "branch" /\ walk.visits # <<>>) =>
        /\ EndsOnParentsOrRepeat
        /\ walk.distance <= Cardinality(DistinctVisibleHashes(items)) - 1

\* C30: the hop bound never cuts a branch walk short; a commit is visited
\* and labelled at a hop distance of at most the number of distinct visible
\* hashes minus 1, and the hop distance reaches that number, no more, when
\* the walk comes back to a visited hash.
C30_HopBoundNeverCuts ==
    walk.kind = "branch" =>
        LET n == Cardinality(DistinctVisibleHashes(items)) IN
        /\ EndsOnParentsOrRepeat
        /\ walk.visits # <<>> =>
              /\ walk.distance <= n
              /\ walk.distance = n => walk.cursor \in walk.seen
        /\ \A i \in 1..Len(walk.visits) :
              /\ i - 1 <= n - 1
              /\ walk.assignments[walk.visits[i]].distance = i - 1
        /\ \A h \in DOMAIN walk.assignments : walk.assignments[h].distance <= n - 1

\* a history of two commits that are each other's parent: the walk went
\* round and is back at its tip, two hops on, the second commit labelled at
\* one hop
C30_Witness ==
    /\ pc = "done"
    /\ walk.kind = "branch"
    /\ Length(items) = 2
    /\ Len(walk.visits) = 2
    /\ walk.distance = 2
    /\ walk.cursor = walk.tip
    /\ walk.assignments[walk.visits[2]].distance = 1

====
